---------------------------- MODULE Spec2Model ----------------------------
(***************************************************************************)
(* Model of the /proc/process_info kernel module (process_info.c).         *)
(*                                                                         *)
(* Shared state: the module-level requested_pid, and the kernel's process  *)
(* table as the module sees it.  Writer threads run process_info_write,    *)
(* reader threads run process_info_show (and read_cmdline inside it); the  *)
(* steps of a handler are split at its accesses to shared state and at     *)
(* its acquisitions and releases.                                          *)
(*                                                                         *)
(* C text is a sequence of tokens (TLA+ strings); a decimal number printed *)
(* by %d is one token per character.  64-bit quantities (long, unsigned    *)
(* long) are four 16-bit limbs, least significant first; pid_t and int are *)
(* 32-bit two's complement integers.                                       *)
(***************************************************************************)
EXTENDS Integers, Sequences, FiniteSets, TLC

\* ------------------------------------------------------------------------
\* Bounds of the model
\* ------------------------------------------------------------------------
NumWriters == 1
NumReaders == 1
NumRacingWriters == 2

\* Writers call process_info_write while readers and the kernel run;
\* AllWriters are the threads that race one another in SpecWrites.
Writers == 1..NumWriters
Readers == 1..NumReaders
AllWriters ==
    1..(IF NumRacingWriters > NumWriters THEN NumRacingWriters ELSE NumWriters)

\* ------------------------------------------------------------------------
\* Program constants
\* ------------------------------------------------------------------------
PID_BUFFER_SIZE == 32
MAX_WRITE_LEN == 31
PAGE_SIZE == 4096
EINVAL == 22
EFAULT == 14
ENOENT == 2
ENOMEM == 12
INITIAL_PID == -1

\* ------------------------------------------------------------------------
\* 64-bit arithmetic on limbs
\* ------------------------------------------------------------------------
LimbBase == 65536
HalfLimb == 32768

U64Zero == <<0, 0, 0, 0>>

\* res * 10 + d in unsigned long long; ovf when the result leaves 64 bits
\* (the overflow test of _parse_integer).
U64MulAdd10(u, d) ==
    LET t1 == u[1] * 10 + d
        t2 == u[2] * 10 + (t1 \div LimbBase)
        t3 == u[3] * 10 + (t2 \div LimbBase)
        t4 == u[4] * 10 + (t3 \div LimbBase)
    IN  [val |-> <<t1 % LimbBase, t2 % LimbBase, t3 % LimbBase, t4 % LimbBase>>,
         ovf |-> t4 \div LimbBase > 0]

\* a - b modulo 2^64 (unsigned long subtraction).
U64Sub(a, b) ==
    LET d1 == a[1] - b[1]
        w1 == IF d1 < 0 THEN 1 ELSE 0
        d2 == a[2] - b[2] - w1
        w2 == IF d2 < 0 THEN 1 ELSE 0
        d3 == a[3] - b[3] - w2
        w3 == IF d3 < 0 THEN 1 ELSE 0
        d4 == a[4] - b[4] - w3
    IN  <<d1 % LimbBase, d2 % LimbBase, d3 % LimbBase, d4 % LimbBase>>

\* -u modulo 2^64.
U64Neg(u) == U64Sub(U64Zero, u)

\* a > b as unsigned long.
U64Gt(a, b) ==
    \/ a[4] > b[4]
    \/ a[4] = b[4] /\ a[3] > b[3]
    \/ a[4] = b[4] /\ a[3] = b[3] /\ a[2] > b[2]
    \/ a[4] = b[4] /\ a[3] = b[3] /\ a[2] = b[2] /\ a[1] > b[1]

\* The sign bit of a 64-bit value read as long long.
S64Negative(u) == u[4] >= HalfLimb

\* Conversion of a 64-bit value to a 32-bit signed type (pid_t, int): the
\* low 32 bits, read as two's complement.
TruncInt32(u) ==
    IF u[2] >= HalfLimb THEN (u[2] - LimbBase) * LimbBase + u[1]
                        ELSE u[2] * LimbBase + u[1]

\* ------------------------------------------------------------------------
\* Text
\* ------------------------------------------------------------------------
Digits == <<"0", "1", "2", "3", "4", "5", "6", "7", "8", "9">>

IsDigit(c) == c \in {Digits[i] : i \in 1..10}

DigitVal(c) == (CHOOSE i \in 1..10 : Digits[i] = c) - 1

\* The decimal digits of a non-positive 32-bit integer's magnitude.  Working
\* on the non-positive side keeps INT_MIN in range.
RECURSIVE NegDigits(_)
NegDigits(n) ==
    IF n = 0 THEN << >>
    ELSE LET d == (10 - (n % 10)) % 10
         IN  Append(NegDigits((n + d) \div 10), Digits[d + 1])

\* printf's %d for a 32-bit int.
FormatD(n) ==
    IF n = 0 THEN <<"0">>
    ELSE IF n < 0 THEN <<"-">> \o NegDigits(n)
    ELSE NegDigits(0 - n)


\* ------------------------------------------------------------------------
\* kstrtol, as process_info_write calls it (base 10, long of 64 bits)
\* ------------------------------------------------------------------------
ERANGE == 34

\* _parse_integer: the leading digits of s, accumulated in unsigned long long.
RECURSIVE ParseInteger(_, _, _, _)
ParseInteger(s, i, acc, ovf) ==
    IF i > Len(s) \/ ~IsDigit(s[i])
    THEN [n |-> i - 1, val |-> acc, ovf |-> ovf]
    ELSE LET r == U64MulAdd10(acc, DigitVal(s[i]))
         IN  ParseInteger(s, i + 1, r.val, ovf \/ r.ovf)

\* _kstrtoull: digits, then at most one newline, then the end of the string.
KstrtoullDigits(s) ==
    LET r    == ParseInteger(s, 1, U64Zero, FALSE)
        rest == SubSeq(s, r.n + 1, Len(s))
        tail == IF rest # << >> /\ rest[1] = "\n" THEN Tail(rest) ELSE rest
    IN  IF r.ovf THEN [rv |-> 0 - ERANGE, val |-> U64Zero]
        ELSE IF r.n = 0 THEN [rv |-> 0 - EINVAL, val |-> U64Zero]
        ELSE IF tail # << >> THEN [rv |-> 0 - EINVAL, val |-> U64Zero]
        ELSE [rv |-> 0, val |-> r.val]

\* kstrtoll / kstrtol: an optional sign, then _kstrtoull, then the range of
\* the signed type.
Kstrtol(s) ==
    IF s # << >> /\ s[1] = "-"
    THEN LET r == KstrtoullDigits(Tail(s))
         IN  IF r.rv < 0 THEN r
             ELSE IF ~S64Negative(U64Neg(r.val)) /\ U64Neg(r.val) # U64Zero
                  THEN [rv |-> 0 - ERANGE, val |-> U64Zero]
             ELSE [rv |-> 0, val |-> U64Neg(r.val)]
    ELSE LET t == IF s # << >> /\ s[1] = "+" THEN Tail(s) ELSE s
             r == KstrtoullDigits(t)
         IN  IF r.rv < 0 THEN r
             ELSE IF S64Negative(r.val) THEN [rv |-> 0 - ERANGE, val |-> U64Zero]
             ELSE r

\* ------------------------------------------------------------------------
\* Write payloads offered to process_info_write
\* ------------------------------------------------------------------------
Rep(c, n) == [i \in 1..n |-> c]

Payloads ==
    { <<"1">>,
      <<"9", "\n">>,
      <<"-", "5">>,
      << >>,
      <<"1", "a">>,
      Rep("1", PID_BUFFER_SIZE),
      <<"4", "2", "9", "4", "9", "6", "7", "2", "9", "7">>,
      <<"9", "2", "2", "3", "3", "7", "2", "0", "3", "6",
        "8", "5", "4", "7", "7", "5", "8", "0", "8">> }

\* The calls offered: every payload from a readable user buffer, and one
\* from an unreadable one.
WriteCalls ==
    {<<p, TRUE>> : p \in Payloads} \cup {<<p, FALSE>> : p \in {<<"1">>}}

\* kstrtol of every payload offered, computed once.
KstrtolOf == [p \in Payloads |-> Kstrtol(p)]

\* ------------------------------------------------------------------------
\* C strings and the lines of the report
\* ------------------------------------------------------------------------
\* A pointer is << >> (NULL) or <<x>> (points at x).
NULL == << >>
Ptr(x) == <<x>>

\* The content of a buffer kmalloc returned and nobody wrote yet.
Garbage == <<"?">>
Cut == "~"

UNKNOWN == <<"Unknown">>
\* The Cyrillic literals of read_cmdline, transliterated.
NODATA == <<"[net dannyh o komandnoj stroke]">>
CMD_PREFIX == "[komandnaja stroka dlinoj "
CMD_SUFFIX == " bajt]"

\* Bytes of a token in the source's encoding (UTF-8: two per Cyrillic letter).
TokenBytes(t) ==
    CASE t = CMD_PREFIX -> 46
      [] t = CMD_SUFFIX -> 10
      [] t = NODATA[1] -> 56
      [] t = UNKNOWN[1] -> 7
      [] OTHER -> 1

RECURSIVE StrLen(_)
StrLen(s) == IF s = << >> THEN 0 ELSE TokenBytes(s[1]) + StrLen(Tail(s))

\* s with a terminator stored at byte index i: the string ends there, or
\* earlier where it ended already.
RECURSIVE TerminateAt(_, _)
TerminateAt(s, i) ==
    IF i <= 0 \/ s = << >> THEN << >>
    ELSE IF s = Garbage THEN Garbage
    ELSE IF TokenBytes(s[1]) > i THEN <<Cut>>
    ELSE <<s[1]>> \o TerminateAt(Tail(s), i - TokenBytes(s[1]))

NoSelLine == <<"No valid PID provided">>
NotFoundLine(n) == <<"Process with PID ">> \o FormatD(n) \o <<" not found">>
PidLine(n) == <<"PID: ">> \o FormatD(n)
UidLine(u) == <<"UID: ">> \o FormatD(u)
ExeLine(p) == <<"Executable: ">> \o (IF p # NULL THEN p[1] ELSE UNKNOWN)
\* CmdLine with the "no data" marker for a missing command line.
CmdLineNoData(p) == <<"Command line: ">> \o (IF p # NULL THEN p[1] ELSE NODATA)
CmdLine(p) == <<"Command line: ">> \o (IF p # NULL THEN p[1] ELSE UNKNOWN)

\* ------------------------------------------------------------------------
\* The process table the module queries
\* ------------------------------------------------------------------------
\* Tasks that exist at module load, by pid.
Tasks == {1, 9}
TaskUid == (1 :> 0) @@ (9 :> 1000)

\* Tasks that exec and exit while the module is loaded.
Mortal == {9}

\* mm_struct contents the module reads: exe_file ("NULL" when absent,
\* "EPATH" when d_path fails on it, else the path) and the argument region.
MmInit ==
    [exe_file |-> "/sbin/init",
     arg_start |-> <<4096, 0, 32765, 0>>, arg_end |-> <<4107, 0, 32765, 0>>]
MmLongArgs ==
    [exe_file |-> "/usr/bin/app",
     arg_start |-> <<4096, 0, 32765, 0>>, arg_end |-> <<9096, 0, 32765, 0>>]
MmNoExe ==
    [exe_file |-> "NULL",
     arg_start |-> <<4096, 0, 32765, 0>>, arg_end |-> <<4096, 0, 32765, 0>>]
MmHugeArgs ==
    [exe_file |-> "EPATH",
     arg_start |-> <<4096, 0, 32765, 0>>, arg_end |-> <<4096, 49152, 32765, 0>>]

MmImages == {MmLongArgs, MmNoExe, MmHugeArgs}

\* ------------------------------------------------------------------------
\* State
\* ------------------------------------------------------------------------
VARIABLES
    requested_pid,  \* the module's static pid_t
    pidHash,        \* pids find_vpid resolves
    taskMm,         \* task->mm of every task: NULL or a pointer to its mm
    wr,             \* per writer thread: its position in process_info_write
    rd,             \* per reader thread: its position in process_info_show,
                    \* and between calls the result of its last call
    wlast           \* the write that has just returned, until the next step

vars == <<requested_pid, pidHash, taskMm, wr, rd, wlast>>

\* quiet: no other call of process_info_write overlapped this one so far;
\* seen: the payloads of the calls that did.
WriterIdle ==
    [pc |-> "idle", payload |-> << >>, pid_value |-> U64Zero, quiet |-> TRUE,
     seen |-> {}]

\* pc is "idle" before a call, "done" after it returned (the locals then
\* show what the call saw) until a writer or the kernel moves.  ret points
\* at the value returned.
\* pid0, pidL, pidP: requested_pid as read at lines 101, 110 and 115/169.
\* clean: nothing but readers moved since the call began; base: the result
\* of this thread's previous call when nothing but readers moved since that
\* call began; wbase: the payload of the successful write that returned just
\* before the call began, while no writer moved since.
\* held: what the call has acquired and not released, in the order of
\* acquisition, as <<kind, task>>; unlocks: its calls of rcu_read_unlock;
\* allocd, freed: the buffers it got from kmalloc and gave to kfree.
ReaderIdle ==
    [pc |-> "idle", pid0 |-> 0, pidL |-> 0, pidP |-> 0, task |-> 0, uid |-> -1,
     mm |-> NULL, rc_mm |-> NULL, exec_path |-> NULL, buffer |-> NULL,
     cmdline |-> NULL, arg_len |-> 0, allocs |-> << >>, out |-> << >>,
     ret |-> NULL, rcu |-> 0, refs |-> 0, mmlock |-> FALSE,
     held |-> << >>, unlocks |-> 0, allocd |-> << >>, freed |-> << >>,
     base |-> NULL, clean |-> FALSE, wbase |-> NULL]

\* An acquisition, and the release of the latest acquisition of x.
Acquire(h, x) == Append(h, x)

RECURSIVE Release(_, _)
Release(h, x) ==
    IF h = << >> THEN << >>
    ELSE IF h[Len(h)] = x THEN SubSeq(h, 1, Len(h) - 1)
    ELSE Append(Release(SubSeq(h, 1, Len(h) - 1), x), h[Len(h)])

RCU == <<"rcu", 0>>
MmRef(t) == <<"mm", t>>
MmapLock(t) == <<"mmap_lock", t>>
CmdlineMmRef(t) == <<"rc_mm", t>>

\* The steps that may sleep: kmalloc(GFP_KERNEL) (lines 126, 149, 151),
\* down_read (line 129) and mmput (lines 73, 165).
MaySleep ==
    {"alloc_exec", "down_read", "alloc_buffer", "alloc_cmdline", "rc_mmput",
     "mmput"}

Init ==
    /\ requested_pid = INITIAL_PID
    /\ pidHash = Tasks
    /\ taskMm = (1 :> Ptr(MmInit)) @@ (9 :> Ptr(MmLongArgs))
    /\ wr = [w \in AllWriters |-> WriterIdle]
    /\ rd = [r \in Readers |-> ReaderIdle]
    /\ wlast = NULL

\* Bookkeeping for "no write in between": a step of a writer ends the quiet
\* span of every read.
WriteSeen(f) ==
    [r \in Readers |->
        IF f[r].pc \in {"idle", "done"} THEN ReaderIdle
        ELSE [f[r] EXCEPT !.base = NULL, !.clean = FALSE, !.wbase = NULL]]

\* Bookkeeping for "no change of the process table in between".
TableChanged(f) ==
    [r \in Readers |->
        IF f[r].pc \in {"idle", "done"} THEN ReaderIdle
        ELSE [f[r] EXCEPT !.base = NULL, !.clean = FALSE]]

OthersIdle(w) == \A v \in AllWriters \ {w} : wr[v].pc = "idle"

\* The payloads of the other calls of process_info_write now in progress.
InFlight(w) ==
    {wr[v].payload : v \in {u \in AllWriters \ {w} : wr[u].pc # "idle"}}

\* ------------------------------------------------------------------------
\* process_info_write
\* ------------------------------------------------------------------------
\* copy_from_user: the number of bytes it could not copy.
CopyFromUser(p, readable) == IF readable THEN 0 ELSE Len(p)

\* WriteCheck with a test for a positive pid added after kstrtol.
WriteCheckPositive(p, readable) ==
    IF Len(p) > MAX_WRITE_LEN THEN 0 - EINVAL
    ELSE IF CopyFromUser(p, readable) # 0 THEN 0 - EFAULT
    ELSE IF KstrtolOf[p].rv # 0 THEN 0 - EINVAL
    ELSE IF S64Negative(KstrtolOf[p].val) \/ KstrtolOf[p].val = U64Zero
         THEN 0 - EINVAL
    ELSE 0

\* Lines 221-236: the checks before the store; 0 or the error returned.
WriteCheck(p, readable) ==
    IF Len(p) > MAX_WRITE_LEN THEN 0 - EINVAL
    ELSE IF CopyFromUser(p, readable) # 0 THEN 0 - EFAULT
    ELSE IF KstrtolOf[p].rv # 0 THEN 0 - EINVAL
    ELSE 0

\* WriteReject with the store of line 239 moved before the checks (pid_value
\* still zero).
WriteRejectStores(w, p, readable) ==
    /\ wr[w].pc = "idle"
    /\ WriteCheck(p, readable) < 0
    /\ requested_pid' = 0
    /\ wlast' = Ptr([payload |-> p, readable |-> readable,
                     ret |-> WriteCheck(p, readable), stored |-> FALSE,
                     quiet |-> OthersIdle(w), seen |-> InFlight(w)])
    /\ rd' = WriteSeen(rd)
    /\ UNCHANGED <<pidHash, taskMm, wr>>

\* A write that fails one of the checks and returns the error.
WriteReject(w, p, readable) ==
    /\ wr[w].pc = "idle"
    /\ WriteCheck(p, readable) < 0
    /\ wlast' = Ptr([payload |-> p, readable |-> readable,
                     ret |-> WriteCheck(p, readable), stored |-> FALSE,
                     quiet |-> OthersIdle(w), seen |-> InFlight(w)])
    /\ rd' = WriteSeen(rd)
    /\ UNCHANGED <<requested_pid, pidHash, taskMm, wr>>

\* A write that passes the checks: kstrtol has set pid_value.
WriteAccept(w, p, readable) ==
    /\ wr[w].pc = "idle"
    /\ WriteCheck(p, readable) = 0
    /\ wr' = [v \in AllWriters |->
                IF v = w THEN [pc |-> "store", payload |-> p,
                               pid_value |-> KstrtolOf[p].val,
                               quiet |-> OthersIdle(w), seen |-> InFlight(w)]
                ELSE IF wr[v].pc = "idle" THEN wr[v]
                ELSE [wr[v] EXCEPT !.quiet = FALSE, !.seen = @ \cup {p}]]
    /\ wlast' = NULL
    /\ rd' = WriteSeen(rd)
    /\ UNCHANGED <<requested_pid, pidHash, taskMm>>

\* WriteStore that keeps a selection already made (the first write wins).
WriteStoreKeeps(w) ==
    /\ wr[w].pc = "store"
    /\ requested_pid' = IF requested_pid > 0 THEN requested_pid
                        ELSE TruncInt32(wr[w].pid_value)
    /\ wr' = [wr EXCEPT ![w].pc = "ret"]
    /\ wlast' = NULL
    /\ rd' = WriteSeen(rd)
    /\ UNCHANGED <<pidHash, taskMm>>

\* Line 239: requested_pid = (pid_t)pid_value.
WriteStore(w) ==
    /\ wr[w].pc = "store"
    /\ requested_pid' = TruncInt32(wr[w].pid_value)
    /\ wr' = [wr EXCEPT ![w].pc = "ret"]
    /\ wlast' = NULL
    /\ rd' = WriteSeen(rd)
    /\ UNCHANGED <<pidHash, taskMm>>

\* Line 240: return len.
WriteReturn(w) ==
    /\ wr[w].pc = "ret"
    /\ wlast' = Ptr([payload |-> wr[w].payload, readable |-> TRUE,
                     ret |-> Len(wr[w].payload), stored |-> TRUE,
                     quiet |-> wr[w].quiet, seen |-> wr[w].seen])
    /\ wr' = [wr EXCEPT ![w] = WriterIdle]
    /\ rd' = WriteSeen(rd)
    /\ UNCHANGED <<requested_pid, pidHash, taskMm>>

\* ------------------------------------------------------------------------
\* The kernel around the module: tasks exec, exit and are reaped
\* ------------------------------------------------------------------------
Execve(t, image) ==
    /\ t \in Mortal /\ t \in pidHash
    /\ taskMm[t] # NULL /\ taskMm[t] # Ptr(image)
    /\ taskMm' = [taskMm EXCEPT ![t] = Ptr(image)]
    /\ rd' = TableChanged(rd)
    /\ wlast' = NULL
    /\ UNCHANGED <<requested_pid, pidHash, wr>>

\* exit_mm: the exiting task drops its mm; it stays in the pid hash.
ExitMm(t) ==
    /\ t \in Mortal /\ t \in pidHash
    /\ taskMm[t] # NULL
    /\ taskMm' = [taskMm EXCEPT ![t] = NULL]
    /\ rd' = TableChanged(rd)
    /\ wlast' = NULL
    /\ UNCHANGED <<requested_pid, pidHash, wr>>

\* release_task: the dead task leaves the pid hash.
ReleaseTask(t) ==
    /\ t \in Mortal /\ t \in pidHash
    /\ taskMm[t] = NULL
    /\ pidHash' = pidHash \ {t}
    /\ rd' = TableChanged(rd)
    /\ wlast' = NULL
    /\ UNCHANGED <<requested_pid, taskMm, wr>>

\* ------------------------------------------------------------------------
\* read_cmdline
\* ------------------------------------------------------------------------
\* Lines 59-71: what read_cmdline leaves in buffer for a task with an mm.
ReadCmdlineText(mm, buf_size) ==
    IF U64Gt(mm.arg_end, mm.arg_start)
    THEN LET diff == TruncInt32(U64Sub(mm.arg_end, mm.arg_start))
             len  == IF diff > buf_size - 1 THEN buf_size - 1 ELSE diff
         IN  TerminateAt(<<CMD_PREFIX>> \o FormatD(len) \o <<CMD_SUFFIX>>,
                         buf_size - 1)
    ELSE TerminateAt(NODATA, buf_size - 1)

\* ------------------------------------------------------------------------
\* process_info_show
\* ------------------------------------------------------------------------
\* The locals of a call that starts now.
ShowEntry(r) ==
    [ReaderIdle EXCEPT
        !.base = IF rd[r].pc = "done" /\ rd[r].clean
                 THEN Ptr([out |-> rd[r].out, allocs |-> rd[r].allocs])
                 ELSE NULL,
        !.clean = TRUE,
        !.wbase = IF wlast # NULL /\ wlast[1].quiet /\ wlast[1].ret >= 0
                  THEN Ptr(wlast[1].payload)
                  ELSE NULL]

\* Lines 101-104: no selection.
ShowNoSelection(r) ==
    /\ rd[r].pc \in {"idle", "done"}
    /\ requested_pid <= 0
    /\ LET rec == [ShowEntry(r) EXCEPT !.pid0 = requested_pid,
                                    !.out = <<NoSelLine>>,
                                       !.ret = Ptr(0), !.pc = "done"]
       IN  rd' = [rd EXCEPT ![r] = rec]
    /\ wlast' = NULL
    /\ UNCHANGED <<requested_pid, pidHash, taskMm, wr>>

\* Lines 101, 107: a positive selection; rcu_read_lock.
ShowSelected(r) ==
    /\ rd[r].pc \in {"idle", "done"}
    /\ requested_pid > 0
    /\ rd' = [rd EXCEPT ![r] = [ShowEntry(r) EXCEPT !.pid0 = requested_pid,
                                                 !.rcu = 1,
                                                 !.held = Acquire(@, RCU),
                                                 !.pc = "lookup"]]
    /\ wlast' = NULL
    /\ UNCHANGED <<requested_pid, pidHash, taskMm, wr>>

\* ShowLookup that returns on the not-found path without rcu_read_unlock.
ShowLookupKeepsGuard(r) ==
    /\ rd[r].pc = "lookup"
    /\ LET found == requested_pid \in pidHash
       IN  rd' = [rd EXCEPT ![r].pidL = requested_pid,
                            ![r].task = IF found THEN requested_pid ELSE 0,
                            ![r].pc = IF found THEN "uid" ELSE "notfound"]
    /\ wlast' = NULL
    /\ UNCHANGED <<requested_pid, pidHash, taskMm, wr>>

\* Line 110 (and 114 when the task is not found).
ShowLookup(r) ==
    /\ rd[r].pc = "lookup"
    /\ LET found == requested_pid \in pidHash
       IN  rd' = [rd EXCEPT ![r].pidL = requested_pid,
                            ![r].task = IF found THEN requested_pid ELSE 0,
                            ![r].rcu = IF found THEN @ ELSE @ - 1,
                            ![r].unlocks = IF found THEN @ ELSE @ + 1,
                            ![r].held = IF found THEN @ ELSE Release(@, RCU),
                            ![r].pc = IF found THEN "uid" ELSE "notfound"]
    /\ wlast' = NULL
    /\ UNCHANGED <<requested_pid, pidHash, taskMm, wr>>

\* ShowNotFound that also drops the stale selection.
ShowNotFoundResets(r) ==
    /\ rd[r].pc = "notfound"
    /\ LET rec == [rd[r] EXCEPT !.pidP = requested_pid,
                                !.out = <<NotFoundLine(requested_pid)>>,
                                !.ret = Ptr(0), !.pc = "done"]
       IN  rd' = [rd EXCEPT ![r] = rec]
    /\ requested_pid' = INITIAL_PID
    /\ wlast' = NULL
    /\ UNCHANGED <<pidHash, taskMm, wr>>

\* Lines 115-116.
ShowNotFound(r) ==
    /\ rd[r].pc = "notfound"
    /\ LET rec == [rd[r] EXCEPT !.pidP = requested_pid,
                                !.out = <<NotFoundLine(requested_pid)>>,
                                !.ret = Ptr(0), !.pc = "done"]
       IN  rd' = [rd EXCEPT ![r] = rec]
    /\ wlast' = NULL
    /\ UNCHANGED <<requested_pid, pidHash, taskMm, wr>>

\* Line 120.
ShowUid(r) ==
    /\ rd[r].pc = "uid"
    /\ rd' = [rd EXCEPT ![r].uid = TaskUid[rd[r].task], ![r].pc = "get_mm"]
    /\ wlast' = NULL
    /\ UNCHANGED <<requested_pid, pidHash, taskMm, wr>>

\* Lines 123-124: get_task_mm.
ShowGetMm(r) ==
    /\ rd[r].pc = "get_mm"
    /\ LET mm == taskMm[rd[r].task]
       IN  rd' = [rd EXCEPT ![r].mm = mm,
                            ![r].refs = IF mm # NULL THEN @ + 1 ELSE @,
                            ![r].held = IF mm # NULL
                                        THEN Acquire(@, MmRef(rd[r].task))
                                        ELSE @,
                            ![r].pc = IF mm # NULL THEN "alloc_exec" ELSE "print"]
    /\ wlast' = NULL
    /\ UNCHANGED <<requested_pid, pidHash, taskMm, wr>>

\* Lines 126-127: kmalloc(PATH_MAX).
ShowAllocExec(r, ok) ==
    /\ rd[r].pc = "alloc_exec"
    /\ rd' = [rd EXCEPT ![r].exec_path = IF ok THEN Ptr(Garbage) ELSE NULL,
                        ![r].allocs = Append(@, ok),
                        ![r].allocd = IF ok THEN Append(@, "exec_path") ELSE @,
                        ![r].pc = IF ok THEN "down_read" ELSE "alloc_buffer"]
    /\ wlast' = NULL
    /\ UNCHANGED <<requested_pid, pidHash, taskMm, wr>>

\* Line 129.
ShowDownRead(r) ==
    /\ rd[r].pc = "down_read"
    /\ rd' = [rd EXCEPT ![r].mmlock = TRUE,
                        ![r].held = Acquire(@, MmapLock(rd[r].task)),
                        ![r].pc = "exe_file"]
    /\ wlast' = NULL
    /\ UNCHANGED <<requested_pid, pidHash, taskMm, wr>>

\* Lines 132-142: d_path of the executable, or "Unknown".
ExePath(mm) ==
    IF mm.exe_file = "NULL" \/ mm.exe_file = "EPATH" THEN UNKNOWN
    ELSE <<mm.exe_file>>

\* ShowExeFile that leaves without up_read when there is no path to show.
ShowExeFileSkipsUnlock(r) ==
    /\ rd[r].pc = "exe_file"
    /\ rd' = [rd EXCEPT ![r].exec_path = Ptr(ExePath(rd[r].mm[1])),
                        ![r].pc = IF ExePath(rd[r].mm[1]) = UNKNOWN
                                  THEN "alloc_buffer" ELSE "up_read"]
    /\ wlast' = NULL
    /\ UNCHANGED <<requested_pid, pidHash, taskMm, wr>>

ShowExeFile(r) ==
    /\ rd[r].pc = "exe_file"
    /\ rd' = [rd EXCEPT ![r].exec_path = Ptr(ExePath(rd[r].mm[1])),
                        ![r].pc = "up_read"]
    /\ wlast' = NULL
    /\ UNCHANGED <<requested_pid, pidHash, taskMm, wr>>

\* Line 145.
ShowUpRead(r) ==
    /\ rd[r].pc = "up_read"
    /\ rd' = [rd EXCEPT ![r].mmlock = FALSE,
                        ![r].held = Release(@, MmapLock(rd[r].task)),
                        ![r].pc = "alloc_buffer"]
    /\ wlast' = NULL
    /\ UNCHANGED <<requested_pid, pidHash, taskMm, wr>>

\* ShowAllocBuffer that gives up with -ENOMEM when kmalloc fails.
ShowAllocBufferFails(r, ok) ==
    /\ rd[r].pc = "alloc_buffer"
    /\ rd' = [rd EXCEPT ![r].buffer = IF ok THEN Ptr(Garbage) ELSE NULL,
                        ![r].allocs = Append(@, ok),
                        ![r].allocd = IF ok THEN Append(@, "buffer") ELSE @,
                        ![r].ret = IF ok THEN @ ELSE Ptr(0 - ENOMEM),
                        ![r].pc = IF ok THEN "alloc_cmdline" ELSE "done"]
    /\ wlast' = NULL
    /\ UNCHANGED <<requested_pid, pidHash, taskMm, wr>>

\* Lines 149-150: kmalloc(PAGE_SIZE) for buffer.
ShowAllocBuffer(r, ok) ==
    /\ rd[r].pc = "alloc_buffer"
    /\ rd' = [rd EXCEPT ![r].buffer = IF ok THEN Ptr(Garbage) ELSE NULL,
                        ![r].allocs = Append(@, ok),
                        ![r].allocd = IF ok THEN Append(@, "buffer") ELSE @,
                        ![r].pc = IF ok THEN "alloc_cmdline" ELSE "mmput"]
    /\ wlast' = NULL
    /\ UNCHANGED <<requested_pid, pidHash, taskMm, wr>>

\* ShowAllocCmdline that leaves without kfree(buffer) when kmalloc fails.
ShowAllocCmdlineLeaks(r, ok) ==
    /\ rd[r].pc = "alloc_cmdline"
    /\ rd' = [rd EXCEPT ![r].cmdline = IF ok THEN Ptr(Garbage) ELSE NULL,
                        ![r].allocs = Append(@, ok),
                        ![r].allocd = IF ok THEN Append(@, "cmdline") ELSE @,
                        ![r].pc = IF ok THEN "rc_get_mm" ELSE "mmput"]
    /\ wlast' = NULL
    /\ UNCHANGED <<requested_pid, pidHash, taskMm, wr>>

\* Lines 151-152: kmalloc(PAGE_SIZE) for cmdline.
ShowAllocCmdline(r, ok) ==
    /\ rd[r].pc = "alloc_cmdline"
    /\ rd' = [rd EXCEPT ![r].cmdline = IF ok THEN Ptr(Garbage) ELSE NULL,
                        ![r].allocs = Append(@, ok),
                        ![r].allocd = IF ok THEN Append(@, "cmdline") ELSE @,
                        ![r].pc = IF ok THEN "rc_get_mm" ELSE "kfree_buffer"]
    /\ wlast' = NULL
    /\ UNCHANGED <<requested_pid, pidHash, taskMm, wr>>

\* Lines 54-56, called from line 154: read_cmdline's own get_task_mm.
ReadCmdlineGetMm(r) ==
    /\ rd[r].pc = "rc_get_mm"
    /\ LET mm == taskMm[rd[r].task]
       IN  rd' = [rd EXCEPT ![r].rc_mm = mm,
                            ![r].refs = IF mm # NULL THEN @ + 1 ELSE @,
                            ![r].held = IF mm # NULL
                                        THEN Acquire(@, CmdlineMmRef(rd[r].task))
                                        ELSE @,
                            ![r].arg_len = IF mm # NULL THEN @ ELSE 0 - ENOENT,
                            ![r].pc = IF mm # NULL THEN "rc_format" ELSE "copy"]
    /\ wlast' = NULL
    /\ UNCHANGED <<requested_pid, pidHash, taskMm, wr>>

\* Line 54 when the task was reaped after the lookup.  The call has been
\* through kmalloc(GFP_KERNEL) and down_read inside its RCU section; where
\* one of them slept, the grace period may have ended and the task_struct
\* been freed.  get_task_mm then reads freed memory: it finds task->mm
\* still NULL as exit_mm left it (ReadCmdlineGetMm above), or it faults
\* and the call never returns (here).
ReadCmdlineStaleTask(r) ==
    /\ rd[r].pc = "rc_get_mm"
    /\ rd[r].task \notin pidHash
    /\ rd' = [rd EXCEPT ![r].pc = "oops"]
    /\ wlast' = NULL
    /\ UNCHANGED <<requested_pid, pidHash, taskMm, wr>>

\* Lines 59-71, with buf_size = PAGE_SIZE - 1.
ReadCmdlineFormat(r) ==
    /\ rd[r].pc = "rc_format"
    /\ rd' = [rd EXCEPT ![r].buffer =
                            Ptr(ReadCmdlineText(rd[r].rc_mm[1], PAGE_SIZE - 1)),
                        ![r].pc = "rc_mmput"]
    /\ wlast' = NULL
    /\ UNCHANGED <<requested_pid, pidHash, taskMm, wr>>

\* ReadCmdlineMmput that returns the length of the argument region.
ReadCmdlineReturnsArgLen(r) ==
    /\ rd[r].pc = "rc_mmput"
    /\ rd' = [rd EXCEPT ![r].refs = @ - 1,
                        ![r].held = Release(@, CmdlineMmRef(rd[r].task)),
                        ![r].arg_len =
                            TruncInt32(U64Sub(rd[r].rc_mm[1].arg_end,
                                              rd[r].rc_mm[1].arg_start)),
                        ![r].pc = "copy"]
    /\ wlast' = NULL
    /\ UNCHANGED <<requested_pid, pidHash, taskMm, wr>>

\* Lines 73-74: mmput, return strlen(buffer).
ReadCmdlineMmput(r) ==
    /\ rd[r].pc = "rc_mmput"
    /\ rd' = [rd EXCEPT ![r].refs = @ - 1,
                        ![r].held = Release(@, CmdlineMmRef(rd[r].task)),
                        ![r].arg_len = StrLen(rd[r].buffer[1]),
                        ![r].pc = "copy"]
    /\ wlast' = NULL
    /\ UNCHANGED <<requested_pid, pidHash, taskMm, wr>>

\* Lines 155-159: terminate buffer at arg_len (or 0), strncpy into cmdline.
ShowCopy(r) ==
    /\ rd[r].pc = "copy"
    /\ LET at   == IF rd[r].arg_len > 0 THEN rd[r].arg_len ELSE 0
           text == TerminateAt(rd[r].buffer[1], at)
       IN  rd' = [rd EXCEPT ![r].buffer = Ptr(text),
                            ![r].cmdline = Ptr(TerminateAt(text, PAGE_SIZE - 1)),
                            ![r].pc = "kfree_buffer"]
    /\ wlast' = NULL
    /\ UNCHANGED <<requested_pid, pidHash, taskMm, wr>>

\* Line 161.
ShowKfreeBuffer(r) ==
    /\ rd[r].pc = "kfree_buffer"
    /\ rd' = [rd EXCEPT ![r].buffer = NULL,
                        ![r].freed = Append(@, "buffer"),
                        ![r].pc = "mmput"]
    /\ wlast' = NULL
    /\ UNCHANGED <<requested_pid, pidHash, taskMm, wr>>

\* ShowMmput that goes on to the report without mmput.
ShowMmputSkipped(r) ==
    /\ rd[r].pc = "mmput"
    /\ rd' = [rd EXCEPT ![r].pc = "print"]
    /\ wlast' = NULL
    /\ UNCHANGED <<requested_pid, pidHash, taskMm, wr>>

\* Line 165.
ShowMmput(r) ==
    /\ rd[r].pc = "mmput"
    /\ rd' = [rd EXCEPT ![r].refs = @ - 1,
                        ![r].held = Release(@, MmRef(rd[r].task)),
                        ![r].pc = "print"]
    /\ wlast' = NULL
    /\ UNCHANGED <<requested_pid, pidHash, taskMm, wr>>

\* Lines 169-172: the four lines of the report.
Report(pid, uid, exec_path, cmdline) ==
    <<PidLine(pid), UidLine(uid), ExeLine(exec_path), CmdLine(cmdline)>>

ShowPrint(r) ==
    /\ rd[r].pc = "print"
    /\ rd' = [rd EXCEPT ![r].pidP = requested_pid,
                        ![r].out = Report(requested_pid, rd[r].uid,
                                          rd[r].exec_path, rd[r].cmdline),
                        ![r].pc = "kfree"]
    /\ wlast' = NULL
    /\ UNCHANGED <<requested_pid, pidHash, taskMm, wr>>

\* Lines 175-180.
ShowKfree(r) ==
    /\ rd[r].pc = "kfree"
    /\ rd' = [rd EXCEPT ![r].exec_path = NULL, ![r].cmdline = NULL,
                        ![r].freed =
                            @ \o (IF rd[r].exec_path # NULL
                                  THEN <<"exec_path">> ELSE << >>)
                              \o (IF rd[r].cmdline # NULL
                                  THEN <<"cmdline">> ELSE << >>),
                        ![r].pc = "unlock"]
    /\ wlast' = NULL
    /\ UNCHANGED <<requested_pid, pidHash, taskMm, wr>>

\* ShowReturn that consumes the selection.
ShowReturnResets(r) ==
    /\ rd[r].pc = "unlock"
    /\ LET rec == [rd[r] EXCEPT !.rcu = @ - 1, !.unlocks = @ + 1,
                                !.held = Release(@, RCU),
                                !.ret = Ptr(0), !.pc = "done"]
       IN  rd' = [rd EXCEPT ![r] = rec]
    /\ requested_pid' = INITIAL_PID
    /\ wlast' = NULL
    /\ UNCHANGED <<pidHash, taskMm, wr>>

\* Lines 183-184: rcu_read_unlock, return 0.
ShowReturn(r) ==
    /\ rd[r].pc = "unlock"
    /\ LET rec == [rd[r] EXCEPT !.rcu = @ - 1, !.unlocks = @ + 1,
                                !.held = Release(@, RCU),
                                !.ret = Ptr(0), !.pc = "done"]
       IN  rd' = [rd EXCEPT ![r] = rec]
    /\ wlast' = NULL
    /\ UNCHANGED <<requested_pid, pidHash, taskMm, wr>>

\* ------------------------------------------------------------------------
\* Specification
\* ------------------------------------------------------------------------
WriterStep ==
    \E w \in Writers :
        \/ \E c \in WriteCalls :
              \/ WriteReject(w, c[1], c[2])
              \/ WriteAccept(w, c[1], c[2])
        \/ WriteStore(w)
        \/ WriteReturn(w)

\* The same steps, taken by threads that race one another.
RacingWriterStep ==
    \E w \in AllWriters :
        \/ \E c \in WriteCalls :
              \/ WriteReject(w, c[1], c[2])
              \/ WriteAccept(w, c[1], c[2])
        \/ WriteStore(w)
        \/ WriteReturn(w)

ReaderStep ==
    \E r \in Readers :
        \/ ShowNoSelection(r)
        \/ ShowSelected(r)
        \/ ShowLookup(r)
        \/ ShowNotFound(r)
        \/ ShowUid(r)
        \/ ShowGetMm(r)
        \/ \E ok \in BOOLEAN :
              \/ ShowAllocExec(r, ok)
              \/ ShowAllocBuffer(r, ok)
              \/ ShowAllocCmdline(r, ok)
        \/ ShowDownRead(r)
        \/ ShowExeFile(r)
        \/ ShowUpRead(r)
        \/ ReadCmdlineGetMm(r)
        \/ ReadCmdlineStaleTask(r)
        \/ ReadCmdlineFormat(r)
        \/ ReadCmdlineMmput(r)
        \/ ShowCopy(r)
        \/ ShowKfreeBuffer(r)
        \/ ShowMmput(r)
        \/ ShowPrint(r)
        \/ ShowKfree(r)
        \/ ShowReturn(r)

KernelStep ==
    \E t \in Tasks :
        \/ \E image \in MmImages : Execve(t, image)
        \/ ExitMm(t)
        \/ ReleaseTask(t)

Next == WriterStep \/ ReaderStep \/ KernelStep

Spec == Init /\ [][Next]_vars

\* Concurrent calls of process_info_write alone.
NextWrites == RacingWriterStep

SpecWrites == Init /\ [][NextWrites]_vars

\* ------------------------------------------------------------------------
\* Vocabulary of the properties
\* ------------------------------------------------------------------------
\* The read of thread r has returned and nothing but readers moved since.
Done(r) == rd[r].pc = "done"

\* The identifier a first line names: the text after "PID: ", or between
\* "Process with PID " and " not found".
FirstLineId(out) ==
    IF out[1][1] = "PID: " THEN Tail(out[1])
    ELSE IF out[1][1] = "Process with PID "
         THEN SubSeq(out[1], 2, Len(out[1]) - 1)
    ELSE << >>

AllDigits(s) == s # << >> /\ \A i \in 1..Len(s) : IsDigit(s[i])

\* The decimal text of a positive integer.
IsPosDecimal(p) == AllDigits(p) /\ \E i \in 1..Len(p) : p[i] # "0"

RECURSIVE StripZeros(_)
StripZeros(s) ==
    IF Len(s) > 1 /\ s[1] = "0" THEN StripZeros(Tail(s)) ELSE s

\* A payload's sign and digits: an optional sign, then the rest without one
\* trailing newline.
Signless(p) == IF p # << >> /\ p[1] \in {"-", "+"} THEN Tail(p) ELSE p
Body(p) ==
    LET q == Signless(p)
    IN  IF q # << >> /\ q[Len(q)] = "\n" THEN SubSeq(q, 1, Len(q) - 1) ELSE q

IsNumeric(p) == AllDigits(Body(p))
IsNonPositive(p) ==
    IsNumeric(p) /\ (p[1] = "-" \/ \A i \in 1..Len(Body(p)) : Body(p)[i] = "0")

\* The integer a numeric payload of at most nine digits denotes.
RECURSIVE DigitsValue(_)
DigitsValue(s) ==
    IF s = << >> THEN 0
    ELSE 10 * DigitsValue(SubSeq(s, 1, Len(s) - 1)) + DigitVal(s[Len(s)])

SmallValue(p) ==
    IF p[1] = "-" THEN 0 - DigitsValue(Body(p)) ELSE DigitsValue(Body(p))

\* The decimal text of an unsigned 64-bit value.
U64DivMod10(u) ==
    LET c4 == u[4]
        c3 == (c4 % 10) * LimbBase + u[3]
        c2 == (c3 % 10) * LimbBase + u[2]
        c1 == (c2 % 10) * LimbBase + u[1]
    IN  [quot |-> <<c1 \div 10, c2 \div 10, c3 \div 10, c4 \div 10>>,
         rem |-> c1 % 10]

RECURSIVE U64Digits(_)
U64Digits(u) ==
    IF u = U64Zero THEN << >>
    ELSE Append(U64Digits(U64DivMod10(u).quot), Digits[U64DivMod10(u).rem + 1])

U64ToDec(u) == IF u = U64Zero THEN <<"0">> ELSE U64Digits(u)

\* ------------------------------------------------------------------------
\* Properties
\* ------------------------------------------------------------------------

\* C1: every read renders one single query: the identifier it prints is the
\* identifier it tested for selection and looked up, and the four-line
\* report is about the task of that identifier.
C1_OneQuery ==
    \A r \in Readers :
        (Done(r) /\ rd[r].pid0 > 0) =>
            /\ rd[r].pidL = rd[r].pid0
            /\ FirstLineId(rd[r].out) = FormatD(rd[r].pidL)
            /\ Len(rd[r].out) = 4 =>
                  /\ FirstLineId(rd[r].out) = FormatD(rd[r].task)
                  /\ rd[r].out[2] = UidLine(TaskUid[rd[r].task])

\* C2: a write of the decimal text of a positive integer, at most 31 bytes
\* long and copied in, returns its length, and the next read with no write
\* in between names exactly that integer in its first line.
C2_WriteThenRead ==
    /\ (/\ wlast # NULL
        /\ IsPosDecimal(wlast[1].payload)
        /\ Len(wlast[1].payload) <= MAX_WRITE_LEN
        /\ wlast[1].readable)
       => wlast[1].ret = Len(wlast[1].payload)
    /\ \A r \in Readers :
          (Done(r) /\ rd[r].wbase # NULL /\ IsPosDecimal(rd[r].wbase[1]))
          => FirstLineId(rd[r].out) = StripZeros(rd[r].wbase[1])

C4_FailedWriteKeepsPid ==
    [][/\ (wlast' # NULL /\ wlast'[1].ret < 0) =>
            /\ requested_pid' = requested_pid
            /\ ~wlast'[1].stored
            /\ wlast'[1].ret \in {0 - EINVAL, 0 - EFAULT}
            /\ wlast'[1].ret = 0 - EFAULT <=>
                  /\ Len(wlast'[1].payload) <= MAX_WRITE_LEN
                  /\ Len(wlast'[1].payload) > 0
                  /\ ~wlast'[1].readable
       /\ requested_pid' # requested_pid =>
            \E w \in Writers : wr[w].pc = "store" /\ wr'[w].pc = "ret"
      ]_vars

C4_Witness ==
    /\ wlast # NULL
    /\ wlast[1].ret = 0 - EFAULT
    /\ requested_pid = 9

\* C5: every read returns 0 and emits at least one line, whatever the
\* selection, the lookup, the task's mm and the three allocations did.
C5_ReadSucceeds ==
    \A r \in Readers :
        /\ rd[r].pc = "done" =>
              /\ rd[r].ret = Ptr(0)
              /\ Len(rd[r].out) >= 1
              /\ \A i \in 1..Len(rd[r].out) : rd[r].out[i] # << >>
        /\ rd[r].pc # "done" => rd[r].ret = NULL

C5_Witness ==
    \E r \in Readers :
        Done(r) /\ rd[r].allocs = <<FALSE, FALSE>> /\ Len(rd[r].out) = 4

\* C6 as claimed: two consecutive reads with no write in between produce
\* identical output.
C6_ReadsIdentical ==
    \A r \in Readers :
        (Done(r) /\ rd[r].base # NULL) => rd[r].out = rd[r].base[1].out

\* C6 as amended: two consecutive reads with no write and no change of the
\* process table between them, and with the same outcomes of their buffer
\* allocations, produce identical output.
C6_ReadsIdenticalSameAllocs ==
    \A r \in Readers :
        (Done(r) /\ rd[r].base # NULL
                 /\ rd[r].base[1].allocs = rd[r].allocs)
        => rd[r].out = rd[r].base[1].out

C6_Witness ==
    \E r \in Readers :
        /\ Done(r) /\ rd[r].base # NULL
        /\ rd[r].allocs = <<TRUE, TRUE, TRUE>>
        /\ rd[r].base[1].allocs = rd[r].allocs
        /\ Len(rd[r].out) = 4

\* C7: a read leaves requested_pid unchanged on every path (while nothing
\* but readers moved since a read began, requested_pid is what the read
\* found at its start), and requested_pid changes only in the store of a
\* successful write.
C7_ReadKeepsPid ==
    [][/\ \A r \in Readers :
            (rd'[r].pc # "idle" /\ rd'[r].clean)
            => requested_pid' = rd'[r].pid0
       /\ requested_pid' # requested_pid =>
            \E w \in Writers :
                /\ wr[w].pc = "store" /\ wr'[w].pc = "ret"
                /\ requested_pid' = TruncInt32(wr[w].pid_value)
      ]_vars

C7_Witness ==
    \E r \in Readers :
        /\ Done(r) /\ rd[r].clean
        /\ rd[r].pid0 > 0 /\ requested_pid = rd[r].pid0
        /\ Len(rd[r].out) = 4

\* C8: the shape of a read's output follows from the lookup alone: one "no
\* selection" line for a selection <= 0; one line naming the selected PID
\* as not found when no task has it; else the four lines PID, UID,
\* Executable, Command line of that task, with "Unknown" for every field
\* that could not be extracted.
ExeAbsent(rec) ==
    \/ rec.mm = NULL
    \/ ~rec.allocs[1]
    \/ rec.mm[1].exe_file \in {"NULL", "EPATH"}

CmdAbsent(rec) ==
    \/ rec.mm = NULL
    \/ Len(rec.allocs) < 3
    \/ ~rec.allocs[2] \/ ~rec.allocs[3]
    \/ rec.rc_mm = NULL

C8_Shape ==
    \A r \in Readers :
        Done(r) =>
            /\ rd[r].pid0 <= 0 => rd[r].out = <<NoSelLine>>
            /\ (rd[r].pid0 > 0 /\ rd[r].task = 0)
               => rd[r].out = <<NotFoundLine(rd[r].pidL)>>
            /\ rd[r].task # 0 =>
                  /\ Len(rd[r].out) = 4
                  /\ rd[r].out[1] = PidLine(rd[r].task)
                  /\ rd[r].out[2] = UidLine(TaskUid[rd[r].task])
                  /\ rd[r].out[3][1] = "Executable: "
                  /\ ExeAbsent(rd[r]) => Tail(rd[r].out[3]) = UNKNOWN
                  /\ rd[r].out[4][1] = "Command line: "
                  /\ CmdAbsent(rd[r]) => Tail(rd[r].out[4]) = UNKNOWN

\* C9 as claimed: for a live task without an mm the report has the owner
\* id, "Unknown" for the executable, and the "no data" marker for the
\* command line.
C9_NoMmNoData ==
    \A r \in Readers :
        (Done(r) /\ rd[r].task # 0 /\ rd[r].mm = NULL) =>
            /\ Len(rd[r].out) = 4
            /\ rd[r].out[2] = <<"UID: ">> \o FormatD(TaskUid[rd[r].task])
            /\ rd[r].out[3] = <<"Executable: ">> \o UNKNOWN
            /\ rd[r].out[4] = <<"Command line: ">> \o NODATA

\* C9 as amended: for a live task without an mm the report has the owner
\* id, and "Unknown" for both the executable and the command line.
C9_NoMmUnknown ==
    \A r \in Readers :
        (Done(r) /\ rd[r].task # 0 /\ rd[r].mm = NULL) =>
            /\ Len(rd[r].out) = 4
            /\ rd[r].out[2] = <<"UID: ">> \o FormatD(TaskUid[rd[r].task])
            /\ rd[r].out[3] = <<"Executable: ">> \o UNKNOWN
            /\ rd[r].out[4] = <<"Command line: ">> \o UNKNOWN

C9_Witness ==
    \E r \in Readers :
        Done(r) /\ rd[r].task = 9 /\ rd[r].mm = NULL /\ Len(rd[r].out) = 4

\* C10: for a task with an mm, the command line reported is the "no data"
\* marker exactly when arg_end <= arg_start, and otherwise the placeholder
\* whose number is arg_end - arg_start.
C10_PlaceholderLength ==
    \A r \in Readers :
        (Done(r) /\ rd[r].rc_mm # NULL) =>
            LET mm  == rd[r].rc_mm[1]
                cmd == Tail(rd[r].out[4])
            IN  IF U64Gt(mm.arg_end, mm.arg_start)
                THEN cmd = <<CMD_PREFIX>>
                           \o U64ToDec(U64Sub(mm.arg_end, mm.arg_start))
                           \o <<CMD_SUFFIX>>
                ELSE cmd = NODATA

\* The pid_t a payload that passes the checks stores.
PidOf(p) == TruncInt32(KstrtolOf[p].val)

AllReturned == \A w \in AllWriters : wr[w].pc = "idle"

\* C11 as claimed: after concurrent successful writes have all returned,
\* requested_pid is the value of the write that returned last.
C11_LastReturnedWins ==
    (AllReturned /\ wlast # NULL /\ wlast[1].stored)
    => requested_pid = PidOf(wlast[1].payload)

\* C11 as amended: after concurrent successful writes have all returned,
\* requested_pid is the value of one of the writes that overlapped the one
\* that returned last (that one included): the one whose store ran last.
\* It is the value of the write that returned last when no other write
\* overlapped it.
C11_LastStoreWins ==
    (AllReturned /\ wlast # NULL /\ wlast[1].stored)
    => /\ requested_pid \in
              {PidOf(q) : q \in {wlast[1].payload} \cup wlast[1].seen}
       /\ wlast[1].quiet => requested_pid = PidOf(wlast[1].payload)

C11_Witness ==
    /\ AllReturned /\ wlast # NULL /\ wlast[1].stored
    /\ wlast[1].seen # {}
    /\ requested_pid # PidOf(wlast[1].payload)
    /\ requested_pid \in {PidOf(q) : q \in wlast[1].seen}

\* C12: while a read holds the RCU read lock its next step is never one
\* that may sleep (a GFP_KERNEL allocation, down_read of mmap_lock, mmput),
\* and so the task it looked up is never freed under it.
C12_NoSleepUnderRcu ==
    \A r \in Readers :
        /\ rd[r].rcu > 0 => rd[r].pc \notin MaySleep
        /\ rd[r].pc # "oops"

\* C13: a read holds the RCU read lock at each step that dereferences the
\* task it looked up (line 120, get_task_mm at lines 123 and 54); a read
\* that took the lock has released it exactly once when it returns, found
\* or not; a read that found no selection never takes it; the depth is 0
\* after every read.
C13_GuardHeld ==
    \A r \in Readers :
        /\ rd[r].rcu \in {0, 1}
        /\ rd[r].pc \in {"uid", "get_mm", "rc_get_mm"} =>
              (rd[r].rcu = 1 /\ RCU = rd[r].held[1] /\ rd[r].task # 0)
        /\ rd[r].pid0 <= 0 => (rd[r].rcu = 0 /\ rd[r].unlocks = 0)
        /\ Done(r) =>
              /\ rd[r].rcu = 0
              /\ rd[r].unlocks = IF rd[r].pid0 > 0 THEN 1 ELSE 0
              /\ \A i \in 1..Len(rd[r].held) : rd[r].held[i] # RCU
        /\ rd[r].pc = "notfound" => (rd[r].rcu = 0 /\ rd[r].unlocks = 1)

C13_Witness ==
    \E r \in Readers :
        /\ Done(r) /\ rd[r].pid0 > 0 /\ rd[r].task = 0
        /\ rd[r].unlocks = 1 /\ rd[r].rcu = 0

\* The mm references a call holds: those of process_info_show and of
\* read_cmdline.
HeldMmRefs(rec) ==
    {i \in 1..Len(rec.held) : rec.held[i][1] \in {"mm", "rc_mm"}}

\* C14: every mm reference a read takes (line 123, line 54) is put exactly
\* once before the read returns, whatever the allocations, the executable
\* and the argument region were: the count of references the read holds is
\* never negative, follows its gets and puts, is 0 from the report on, and
\* read_cmdline has put its own reference when it returns.
C14_MmRefsReleased ==
    \A r \in Readers :
        /\ rd[r].refs >= 0
        /\ rd[r].refs = Cardinality(HeldMmRefs(rd[r]))
        /\ rd[r].pc \in {"print", "kfree", "unlock", "done", "notfound"}
              => rd[r].refs = 0
        /\ rd[r].pc \in {"copy", "kfree_buffer", "mmput"} =>
              (rd[r].refs = 1 /\ rd[r].held[Len(rd[r].held)] = MmRef(rd[r].task))

C14_Witness ==
    \E r \in Readers :
        /\ Done(r) /\ Len(rd[r].out) = 4
        /\ rd[r].mm = Ptr(MmNoExe) /\ rd[r].rc_mm = Ptr(MmNoExe)
        /\ rd[r].refs = 0

\* The order of nesting: the RCU read lock outermost, then the mm
\* reference of process_info_show, then the mmap read lock or the mm
\* reference of read_cmdline.
NestedOrder(h) ==
    /\ Len(h) <= 3
    /\ Len(h) >= 1 => h[1] = RCU
    /\ Len(h) >= 2 => h[2][1] = "mm"
    /\ Len(h) >= 3 => h[3][1] \in {"mmap_lock", "rc_mm"}

\* C15: within every read acquisitions and releases nest: each release is
\* of what was acquired last; the mmap read lock is held only under an mm
\* reference and an mm reference only under the RCU read lock; the mmap
\* read lock is released before the block of the executable path is left,
\* whichever branch ran; every lock and reference is of the task the read
\* looked up.
C15_StrictNesting ==
    [][\A r \in Readers :
          /\ Len(rd'[r].held) < Len(rd[r].held)
                => rd'[r].held = SubSeq(rd[r].held, 1, Len(rd[r].held) - 1)
          /\ NestedOrder(rd'[r].held)
          /\ \A i \in 2..Len(rd'[r].held) :
                rd'[r].held[i][2] = rd'[r].task /\ rd'[r].task # 0
          /\ rd'[r].mmlock <=>
                (Len(rd'[r].held) = 3 /\ rd'[r].held[3][1] = "mmap_lock")
          /\ rd'[r].pc \in {"alloc_buffer", "alloc_cmdline", "rc_get_mm"}
                => ~rd'[r].mmlock
      ]_vars

C15_Witness ==
    \E r \in Readers :
        /\ rd[r].pc = "up_read"
        /\ rd[r].exec_path = Ptr(UNKNOWN)
        /\ rd[r].held = <<RCU, MmRef(9), MmapLock(9)>>

\* The forms a field of the report may take.
IsPlaceholder(t) ==
    /\ Len(t) >= 3
    /\ t[1] = CMD_PREFIX /\ t[Len(t)] = CMD_SUFFIX
    /\ \E n \in {SubSeq(t, 2, Len(t) - 1)} :
          AllDigits(n) \/ (n[1] = "-" /\ AllDigits(Tail(n)))

ExeFieldOk(t) ==
    t = UNKNOWN \/ \E m \in MmImages \cup {MmInit} :
                      m.exe_file \notin {"NULL", "EPATH"} /\ t = <<m.exe_file>>

CmdFieldOk(t) == t = UNKNOWN \/ t = NODATA \/ IsPlaceholder(t)

\* C16: in every four-line report the Executable field is a resolved path
\* or "Unknown", and the Command line field is the length placeholder, the
\* "no data" marker or "Unknown": never empty, never what kmalloc left in
\* the buffer, also when read_cmdline's get_task_mm fails.
C16_FieldsNeverEmpty ==
    \A r \in Readers :
        (Done(r) /\ Len(rd[r].out) = 4) =>
            /\ rd[r].out[3][1] = "Executable: "
            /\ ExeFieldOk(Tail(rd[r].out[3]))
            /\ rd[r].out[4][1] = "Command line: "
            /\ CmdFieldOk(Tail(rd[r].out[4]))

\* C17: a read looks up only a positive identifier, also while writes
\* run: a read that found requested_pid <= 0 prints the "no selection"
\* line, the identifier given to find_vpid is positive, and the "not
\* found" line names a positive identifier.
C17_LookupOnlyPositive ==
    \A r \in Readers :
        /\ (Done(r) /\ rd[r].pid0 <= 0) => rd[r].out = <<NoSelLine>>
        /\ rd[r].pc \notin {"idle", "lookup"} /\ rd[r].pid0 > 0
              => rd[r].pidL > 0
        /\ (Done(r) /\ rd[r].out[1][1] = "Process with PID ")
              => (rd[r].pidL > 0 /\ rd[r].pidP > 0
                  /\ AllDigits(FirstLineId(rd[r].out)))

\* Argument regions at the edges of the length arithmetic: empty,
\* reversed, 1, PAGE_SIZE - 3 .. PAGE_SIZE - 1, 2^31 - 1, 2^31, 2^32 and
\* 2^32 + 5 bytes long.
ArgRegionCases ==
    {[arg_start |-> <<4096, 0, 32765, 0>>, arg_end |-> e] :
        e \in {<<4096, 0, 32765, 0>>, <<0, 0, 0, 0>>, <<4097, 0, 32765, 0>>,
               <<8189, 0, 32765, 0>>, <<8190, 0, 32765, 0>>,
               <<8191, 0, 32765, 0>>, <<4095, 32768, 32765, 0>>,
               <<4096, 32768, 32765, 0>>, <<4096, 0, 32766, 0>>,
               <<4101, 0, 32766, 0>>}}

\* C18: whatever the argument region and whatever read_cmdline returns,
\* the summary and its terminator lie within the buf_size = PAGE_SIZE - 1
\* bytes read_cmdline may write, the value returned is at most
\* PAGE_SIZE - 2 (a length, or -ENOENT), and the index at which line 155
\* stores the terminator is within 0..PAGE_SIZE-1.
C18_WithinBuffer ==
    \A r \in Readers :
        /\ rd[r].pc = "copy" =>
              /\ rd[r].arg_len <= PAGE_SIZE - 2
              /\ (IF rd[r].arg_len > 0 THEN rd[r].arg_len ELSE 0)
                    \in 0..(PAGE_SIZE - 1)
              /\ rd[r].arg_len < 0 => rd[r].arg_len = 0 - ENOENT
              /\ rd[r].arg_len >= 0 =>
                    /\ rd[r].arg_len = StrLen(rd[r].buffer[1])
                    /\ rd[r].arg_len > 0
                    /\ rd[r].arg_len + 1 <= PAGE_SIZE - 1
              /\ \A m \in ArgRegionCases :
                    /\ StrLen(ReadCmdlineText(m, PAGE_SIZE - 1)) > 0
                    /\ StrLen(ReadCmdlineText(m, PAGE_SIZE - 1)) + 1
                          <= PAGE_SIZE - 1
        /\ (rd[r].pc = "kfree_buffer" /\ rd[r].cmdline # NULL) =>
              StrLen(rd[r].cmdline[1]) + 1 <= PAGE_SIZE

C18_Witness ==
    \E r \in Readers :
        /\ rd[r].pc = "copy"
        /\ rd[r].rc_mm = Ptr(MmLongArgs)
        /\ rd[r].arg_len = 60

\* The buffers of a call: those it allocated, and those of them it has
\* not freed.
Range(q) == {q[i] : i \in 1..Len(q)}
Live(rec) == Range(rec.allocd) \ Range(rec.freed)
NoRepeat(q) == \A i, j \in 1..Len(q) : q[i] = q[j] => i = j

\* C19: every buffer a read allocates (exec_path, buffer, cmdline) is
\* freed exactly once before the read returns, whichever of the three
\* allocations succeed; a buffer is live at each step that uses it; the
\* no-selection and not-found paths allocate nothing.
C19_BuffersFreedOnce ==
    \A r \in Readers :
        /\ NoRepeat(rd[r].allocd) /\ NoRepeat(rd[r].freed)
        /\ Range(rd[r].freed) \subseteq Range(rd[r].allocd)
        /\ Len(rd[r].allocd) =
              Cardinality({i \in 1..Len(rd[r].allocs) : rd[r].allocs[i]})
        /\ Done(r) => Live(rd[r]) = {}
        /\ rd[r].pc = "exe_file" => "exec_path" \in Live(rd[r])
        /\ rd[r].pc = "rc_format" => "buffer" \in Live(rd[r])
        /\ rd[r].pc = "copy" => {"buffer", "cmdline"} \subseteq Live(rd[r])
        /\ rd[r].pc = "print" =>
              /\ "buffer" \notin Live(rd[r])
              /\ rd[r].exec_path # NULL <=> "exec_path" \in Live(rd[r])
              /\ rd[r].cmdline # NULL <=> "cmdline" \in Live(rd[r])
        /\ (rd[r].pc \in {"notfound", "done"} /\ Len(rd[r].out) <= 1)
              => rd[r].allocd = << >>

C19_Witness ==
    \E r \in Readers :
        /\ Done(r)
        /\ rd[r].allocs = <<TRUE, TRUE, FALSE>>
        /\ rd[r].allocd = <<"exec_path", "buffer">>
        /\ rd[r].freed = <<"buffer", "exec_path">>

=============================================================================
